---- MODULE Spec2Model ----
(***************************************************************************)
(* Approval-gated execution coordinator: FileAgentOrchestrator             *)
(* (orchestrator.py), SlackApprovalMCP (slack_approval_mcp.py) and the     *)
(* risk classifier / executor boundary of FileManagementAgent              *)
(* (file_agent.py).                                                        *)
(*                                                                         *)
(* Strings that the code searches (message texts, user names, request      *)
(* IDs) are sequences of one-character strings, so that `in` (substring),  *)
(* str.lower() and the f-string prompts are computed, not assumed.         *)
(* Optional values (Python None) are sequences of length 0 or 1.           *)
(* Time is in whole seconds.                                               *)
(***************************************************************************)
EXTENDS Integers, Sequences, FiniteSets, TLC

\* ------------------------------------------------------------------ bounds
\* Timeout window of SlackApprovalMCP in seconds (timeout_minutes * 60 in the
\* source, a constructor parameter; scaled down to keep the poll loop short).
TimeoutWindow == 9
\* process_request calls made in one run.
MaxRequests == 1
\* Messages that people (or other programs) post to the channel in one run.
MaxEnvPosts == 1
\* Longest time a channel call (session set-up, history fetch) takes.
MaxCallTime == 1
\* process_request calls made in one run that is followed for its audit log.
MaxAuditedCalls == 2

\* ------------------------------------------------------- program constants
EchoWindow == 5
DefaultCheckInterval == 3
SlowCheckInterval == 10
MaxBackoff == 5
NoHintBackoff == 5
PostSettle == 1
HistoryLimit == 10

\* ------------------------------------------------------------------ Python
None == <<>>
Some(x) == <<x>>
IsNone(o) == o = <<>>
Val(o) == o[1]

Min(a, b) == IF a < b THEN a ELSE b
Abs(a) == IF a < 0 THEN 0 - a ELSE a

UpperToLower ==
  [c \in {"A","B","C","D","E","J","N","O","P","R","T","V","Y"} |->
     CASE c = "A" -> "a" [] c = "B" -> "b" [] c = "C" -> "c" [] c = "D" -> "d"
       [] c = "E" -> "e" [] c = "J" -> "j" [] c = "N" -> "n" [] c = "O" -> "o"
       [] c = "P" -> "p" [] c = "R" -> "r" [] c = "T" -> "t" [] c = "V" -> "v"
       [] c = "Y" -> "y"]

\* str.lower()
Lower(s) ==
  [i \in 1..Len(s) |-> IF s[i] \in DOMAIN UpperToLower THEN UpperToLower[s[i]] ELSE s[i]]

\* `needle in s` for strings
Contains(s, needle) ==
  \E i \in 1..(Len(s) - Len(needle) + 1) :
     \A k \in 1..Len(needle) : s[i + k - 1] = needle[k]

\* ----------------------------------------------------------------- literals
S_approve == <<"a","p","p","r","o","v","e">>
S_deny == <<"d","e","n","y">>
S_reject == <<"r","e","j","e","c","t">>
S_bot == <<"b","o","t">>
S_app == <<"a","p","p">>
S_unknown == <<"u","n","k","n","o","w","n">>
S_AgentApprovalRequest ==
  <<"A","g","e","n","t"," ","A","p","p","r","o","v","a","l"," ","R","e","q","u","e","s","t">>
S_ToApproveReply ==
  <<"T","o"," ","a","p","p","r","o","v","e",","," ","r","e","p","l","y",":">>
S_ToDenyReply ==
  <<"T","o"," ","d","e","n","y",","," ","r","e","p","l","y",":">>
S_ApprovalRequest ==
  <<"A","p","p","r","o","v","a","l"," ","R","e","q","u","e","s","t"," ">>
Sp == <<" ">>

HexDigits == <<"1","2","3","4","5","6","7","8","9","a","b","c","d","e","f">>

\* str(uuid.uuid4())[:8]: eight lowercase hex characters; the n-th request of a
\* run gets the n-th identifier (identifiers never repeat within a run).
NewApprovalId(n) == <<"a","b","1","2","c","d","3">> \o <<HexDigits[n]>>

\* ---------------------------------------------------------------- messages
\* One element of message_list.  kind "dict": a record of the channel (keys
\* says which keys it has, nulls which of them are JSON null); kind "str": an
\* opaque text blob (text is the blob).  ts.has = FALSE: no "ts" key, or "".
\* at is when the message was posted (the channel's own record; the code never
\* reads it).
NoTs == [has |-> FALSE, sec |-> 0, n |-> 0]
Ts(sec, n) == [has |-> TRUE, sec |-> sec, n |-> n]

Dict(keys, user, username, text, value) ==
  [kind |-> "dict", keys |-> keys, nulls |-> {}, user |-> user,
   username |-> username, text |-> text, value |-> value, ts |-> NoTs, at |-> 0]
Blob(text) ==
  [kind |-> "str", keys |-> {}, nulls |-> {}, user |-> <<>>,
   username |-> <<>>, text |-> text, value |-> <<>>, ts |-> NoTs, at |-> 0]

CsvKeys == {"user", "text", "ts", "username", "channel"}

\* dict.get(key, default)
Get(message, key, default) == IF key \in message.keys THEN message[key] ELSE default

\* The account whose token posts the prompts (SLACK_MCP_XOXP_TOKEN).
BotUserId == <<"U","0","B","O","T">>
BotUserName == <<"a","r","t","e","m">>

U_alice == <<"U","1">>
N_alice == <<"a","l","i","c","e">>
N_happy == <<"H","a","p","p","y">>

\* message_text of request_approval (lines 68-77), without the context and
\* target lines.
PlainPromptText(id) ==
  S_AgentApprovalRequest \o Sp \o id \o Sp \o S_ToApproveReply \o Sp \o S_approve
    \o Sp \o id \o Sp \o S_ToDenyReply \o Sp \o S_deny \o Sp \o id
\* fallback text of the blocks payload (line 174)
BlocksPromptText(id) == S_ApprovalRequest \o id

\* What the channel shows for a posted prompt.
PromptEcho(encoding, id) ==
  Dict(CsvKeys, BotUserId, BotUserName,
       IF encoding = "blocks" THEN BlocksPromptText(id) ELSE PlainPromptText(id), <<>>)

\* Messages other parties can post while request `id` is open.
ReplyTemplates(id) ==
  LET approve == id \o Sp \o S_approve
      upper_id == <<"A","B","1","2","C","D","3">> \o <<id[Len(id)]>>
  IN {
    Dict(CsvKeys, U_alice, N_alice, approve, <<>>),
    Dict(CsvKeys, U_alice, N_alice, S_deny \o Sp \o id, <<>>),
    Dict(CsvKeys, U_alice, N_alice, <<"R","E","J","E","C","T"," ">> \o upper_id, <<>>),
    Dict(CsvKeys, U_alice, N_alice,
         S_deny \o Sp \o id \o <<" ","d","o"," ","n","o","t"," ">> \o S_approve, <<>>),
    Dict(CsvKeys, U_alice, N_alice, S_approve, <<>>),
    Dict(CsvKeys, U_alice, N_happy, approve, <<>>),
    Dict(CsvKeys, BotUserId, BotUserName, approve, <<>>),
    Dict({"user", "text", "ts"}, U_alice, <<>>, approve, <<>>),
    Dict({"user", "text", "ts", "value"}, U_alice, <<>>, <<"o","k">>,
         S_approve \o <<"_">> \o id),
    Dict({"user", "text", "value"}, U_alice, <<>>, <<"o","k">>,
         S_approve \o <<"_">> \o id),
    [Dict({"user", "username", "text", "ts"}, U_alice, <<>>, approve, <<>>)
       EXCEPT !.nulls = {"username"}],
    Blob(PlainPromptText(id))
  }

\* ------------------------------------------------------------------- state
VARIABLES
  now,                     \* datetime.now(), seconds
  channel,                 \* the Slack channel: messages in posting order
  env_posts,               \* messages posted by other parties so far
  audit_log,               \* FileAgentOrchestrator.audit_log
  pending_approvals,       \* SlackApprovalMCP.pending_approvals
  bot_user_id,             \* SlackApprovalMCP.bot_user_id
  message_sent_timestamp,  \* SlackApprovalMCP.message_sent_timestamp
  calls,                   \* process_request calls started
  results,                 \* what process_request returned, one per return
  opc,                     \* where the running process_request is
  operation,               \* process_request: operation
  log_entry,               \* process_request: log_entry
  exec_calls,              \* executor invocations of the running process_request
  last_exec,               \* the _execute_with_fallback call of the running process_request
  apc,                     \* where the running request_approval is
  approval_id,             \* request_approval: approval_id
  session_open,            \* the stdio_client / ClientSession context is open
  post_attempts,           \* encodings tried so far while the prompt is being posted
  seen_message_timestamps, \* _wait_for_response: seen_message_timestamps
  check_interval,          \* _wait_for_response: check_interval
  message_list,            \* _wait_for_response: message_list of the last fetch
  fetch_result,            \* the last poll cycle: "ok", or "error" (it went through the except)
  resolved_by,             \* the message that took the request out of PENDING
  processed,               \* ts of the messages given to _process_response, in order
  last_error,              \* the exception the poll loop's except caught last, in this call
  peer,                    \* a second request_approval call on the same SlackApprovalMCP
  audit_view               \* what the last get_audit_log call returned

vars == <<now, channel, env_posts, audit_log, pending_approvals, bot_user_id,
          message_sent_timestamp, calls, results, opc, operation, log_entry,
          exec_calls, last_exec, apc, approval_id, session_open, post_attempts,
          seen_message_timestamps, check_interval, message_list, fetch_result, resolved_by,
          processed, last_error, peer, audit_view>>

\* ---------------------------------------------------------- file_agent.py
OperationTypes == {"list", "read", "delete", "move", "write"}

\* a classifier that forgets one destructive kind
high_risk_operations_NoWrite == {"delete", "move"}

\* a classifier that also sends reads to approval
high_risk_operations_WithRead == {"read", "delete", "move", "write"}

high_risk_operations == {"delete", "move", "write"}

is_high_risk_operation(op) == op.type \in high_risk_operations

\* _is_path_allowed(_get_full_path(path)); a path is "inside" or "outside" the
\* working directory.
_is_path_allowed(path) == path = "inside"

\* ---------------------------------------------------- slack_approval_mcp.py
PENDING == "pending"
APPROVED == "approved"
DENIED == "denied"
TIMEOUT == "timeout"

\* _get_bot_info: returns None on both of its paths.
_get_bot_info == None

\* A message on which _is_bot_message raises: the bot_user_id test did not
\* return, and username is None, so username.lower() is an AttributeError
\* (caught by the poll loop's except).
IsBotMessageRaises(message) ==
  /\ message.kind = "dict"
  /\ ~(~IsNone(bot_user_id) /\ Get(message, "user", <<>>) = Val(bot_user_id))
  /\ "username" \in message.keys
  /\ "username" \in message.nulls

_is_bot_message(message) ==
  IF message.kind # "dict" THEN FALSE
  ELSE
    LET user_id == Get(message, "user", <<>>)
        username == Get(message, "username", <<>>)
        text == Get(message, "text", <<>>)
    IN \/ /\ ~IsNone(bot_user_id)
          /\ user_id = Val(bot_user_id)
       \/ Contains(Lower(username), S_bot)
       \/ Contains(Lower(username), S_app)
       \/ Contains(text, S_AgentApprovalRequest)
       \/ Contains(text, S_ToApproveReply)
       \/ /\ ~IsNone(message_sent_timestamp)
          /\ "ts" \in message.keys
          /\ message.ts.has
          /\ Abs(message.ts.sec - Val(message_sent_timestamp)) < EchoWindow

_is_approval_response(message, id) ==
  LET text == IF message.kind = "dict" THEN Get(message, "text", <<>>) ELSE message.text
      text_lower == Lower(text)
      approval_id_lower == Lower(id)
      has_approval_id == Contains(text_lower, approval_id_lower)
      has_approve_word == Contains(text_lower, S_approve)
      has_deny_word == Contains(text_lower, S_deny) \/ Contains(text_lower, S_reject)
  IN \/ has_approval_id /\ (has_approve_word \/ has_deny_word)
     \/ /\ message.kind = "dict"
        /\ "value" \in message.keys
        /\ Contains(message.value, id)

\* a responder taken from the user id even when there is a display name
_process_response_UserId(message, request) ==
  LET text_lower == Lower(IF message.kind = "dict" THEN Get(message, "text", <<>>)
                          ELSE message.text)
      named == Contains(text_lower, Lower(request.id))
  IN [request EXCEPT
        !.response_time = Some(now),
        !.responded_by = Some(IF message.kind = "dict"
                              THEN Get(message, "user", S_unknown) ELSE S_unknown),
        !.status = IF Contains(text_lower, S_approve) /\ named THEN APPROVED
                   ELSE IF (Contains(text_lower, S_deny) \/ Contains(text_lower, S_reject))
                           /\ named THEN DENIED
                   ELSE request.status]

\* _process_response: the request as it is after the call (the request object
\* is mutated in place; pending_approvals holds the same object).
_process_response(message, request) ==
  LET responded_by ==
        IF message.kind = "dict"
        THEN Get(message, "username", Get(message, "user", S_unknown))
        ELSE S_unknown
      text == IF message.kind = "dict" THEN Get(message, "text", <<>>) ELSE message.text
      text_lower == Lower(text)
      approval_id_lower == Lower(request.id)
      status ==
        IF Contains(text_lower, S_approve) /\ Contains(text_lower, approval_id_lower)
        THEN APPROVED
        ELSE IF /\ Contains(text_lower, S_deny) \/ Contains(text_lower, S_reject)
                /\ Contains(text_lower, approval_id_lower)
        THEN DENIED
        ELSE request.status
  IN [request EXCEPT !.response_time = Some(now),
                     !.responded_by = Some(responded_by),
                     !.status = status]

\* a loop that never takes the return of line 351
LeftPending_Never(request) == FALSE

\* line 349: the poll loop returns as soon as the request has left PENDING
LeftPending(request) == request.status # PENDING

\* a loop that never records what it has looked at
Mark_Forgets(seen, msg_ts) == seen

\* lines 337-338, 346-347, 352-353: if msg_ts: seen_message_timestamps.add(msg_ts)
Mark(seen, msg_ts) == IF msg_ts.has THEN seen \cup {msg_ts} ELSE seen

\* One pass of the body of `for i, message in enumerate(message_list)` (lines
\* 323-353).  st = [seen, request, exit, by, processed]: exit is "no" while the loop runs,
\* "return" after line 351, "raise" after an exception left the loop.
EvaluateMessage(st, message) ==
  LET msg_ts == IF message.kind = "dict" THEN Get(message, "ts", NoTs) ELSE NoTs
      mark == Mark(st.seen, msg_ts)
  IN IF msg_ts.has /\ msg_ts \in st.seen THEN st
     ELSE IF IsBotMessageRaises(message) THEN [st EXCEPT !.exit = "raise"]
     ELSE IF _is_bot_message(message) THEN [st EXCEPT !.seen = mark]
     ELSE IF _is_approval_response(message, st.request.id)
     THEN LET request == _process_response(message, st.request)
              given == Append(st.processed, msg_ts)
          IN IF LeftPending(request)
             THEN [seen |-> mark, request |-> request, exit |-> "return",
                   by |-> Some(message), processed |-> given]
             ELSE [st EXCEPT !.seen = mark, !.request = request, !.processed = given]
     ELSE [st EXCEPT !.seen = mark]

RECURSIVE EvaluateMessages(_, _, _)
EvaluateMessages(st, messages, i) ==
  IF i > Len(messages) \/ st.exit # "no" THEN st
  ELSE EvaluateMessages(EvaluateMessage(st, messages[i]), messages, i + 1)

Reverse(s) == [i \in 1..Len(s) |-> s[Len(s) + 1 - i]]
LastN(s, n) == IF Len(s) <= n THEN s ELSE SubSeq(s, Len(s) - n + 1, Len(s))

\* conversations_history with limit 10: the latest messages, in either order.
History(newest_first) ==
  IF newest_first THEN Reverse(LastN(channel, HistoryLimit))
  ELSE LastN(channel, HistoryLimit)

\* a backoff that sleeps for the whole hint
BackoffSeconds_Uncapped(err) ==
  IF ~err.rate_limit THEN 0
  ELSE IF err.hint
       THEN IF err.unit = "m" THEN err.value * 60 ELSE err.value
       ELSE NoHintBackoff

\* lines 359-375: the sleep after a transport error, before `continue` or
\* before falling through.  err = [rate_limit, hint, value, unit].
BackoffSeconds(err) ==
  IF ~err.rate_limit THEN 0
  ELSE IF err.hint
       THEN Min(IF err.unit = "m" THEN err.value * 60 ELSE err.value, MaxBackoff)
       ELSE NoHintBackoff

\* ------------------------------------------------------------ orchestrator.py
\* Operations parse_intent can return.
Operations ==
  {[type |-> t, path |-> "inside"] : t \in OperationTypes}
    \cup {[type |-> t, path |-> "outside"] : t \in {"read", "delete"}}

\* an entry that is always built with required_approval = False
AuditLogEntry_NoFlag(timestamp, op, required_approval) ==
  [timestamp |-> timestamp, operation |-> op, required_approval |-> FALSE,
   approval_status |-> None, approved_by |-> None, execution_result |-> None,
   error |-> None]

\* AuditLogEntry(timestamp, operation, required_approval) (lines 43-47)
AuditLogEntry(timestamp, op, required_approval) ==
  [timestamp |-> timestamp, operation |-> op, required_approval |-> required_approval,
   approval_status |-> None, approved_by |-> None, execution_result |-> None,
   error |-> None]

\* a handler that returns without recording its entry
append_Dropped(log, entry) == log

\* a log that puts the newest entry first
append_Front(log, entry) == <<entry>> \o log

\* self.audit_log.append(log_entry) (lines 71, 84, 97, 112, 127, 140)
append(log, entry) == Append(log, entry)

\* agent._move_file (line 178): FileManagementAgent defines no _move_file, so
\* the call raises AttributeError whenever it is reached.
_move_file_raises == TRUE

\* what the failed lookup of agent._move_file raises
MoveFileError == "'FileManagementAgent' object has no attribute '_move_file'"

\* a fallback for every kind, whose own error is what the caller gets
_execute_with_fallback_Loose(op, primary_ok) ==
  IF _is_path_allowed(op.path) /\ primary_ok
  THEN [ok |-> TRUE, value |-> "result", fallback |-> FALSE]
  ELSE [ok |-> FALSE, value |-> MoveFileError, fallback |-> TRUE]

\* _execute_with_fallback (lines 168-183).  primary_ok: the AI-generated code
\* ran without raising.  The outcome: ok, the result or the error raised, and
\* whether the quarantine move was attempted.
_execute_with_fallback(op, primary_ok) ==
  LET primary_error ==
        IF ~_is_path_allowed(op.path)
        THEN Some("Operation not allowed outside working directory")
        ELSE IF ~primary_ok THEN Some("Failed to execute AI-generated code")
        ELSE None
  IN IF IsNone(primary_error)
     THEN [ok |-> TRUE, value |-> "result", fallback |-> FALSE]
     ELSE IF op.type = "delete"
          THEN IF _move_file_raises
               THEN [ok |-> FALSE, value |-> Val(primary_error), fallback |-> TRUE]
               ELSE [ok |-> TRUE, value |-> "File moved to trash", fallback |-> TRUE]
          ELSE [ok |-> FALSE, value |-> Val(primary_error), fallback |-> FALSE]

\* a branch that runs everything that was not denied
MayExecute_NotDenied(status) == status # DENIED

\* line 65: the branch that executes
MayExecute(status) == status = APPROVED

Result(success, value, required_approval, approval_status) ==
  [success |-> success, value |-> value, required_approval |-> required_approval,
   approval_status |-> approval_status]

\* ------------------------------------------------------------------- Init
\* No second request_approval call is running.
NoPeer ==
  [pc |-> "none", id |-> None, wake |-> 0, seen |-> {}, interval |-> DefaultCheckInterval,
   attempts |-> <<>>]

Init ==
  /\ now = 0
  /\ channel = <<>>
  /\ env_posts = 0
  /\ audit_log = <<>>
  /\ pending_approvals = <<>>
  /\ bot_user_id = None
  /\ message_sent_timestamp = None
  /\ calls = 0
  /\ results = <<>>
  /\ opc = "idle"
  /\ operation = None
  /\ log_entry = None
  /\ exec_calls = 0
  /\ last_exec = None
  /\ apc = "idle"
  /\ approval_id = None
  /\ session_open = FALSE
  /\ post_attempts = <<>>
  /\ seen_message_timestamps = {}
  /\ check_interval = DefaultCheckInterval
  /\ message_list = <<>>
  /\ fetch_result = "none"
  /\ resolved_by = None
  /\ processed = <<>>
  /\ last_error = None
  /\ peer = NoPeer
  /\ audit_view = None

orch_vars == <<audit_log, calls, results, opc, operation, log_entry, exec_calls,
               last_exec>>
appr_vars == <<pending_approvals, bot_user_id, message_sent_timestamp, apc,
               approval_id, session_open, post_attempts, seen_message_timestamps,
               check_interval, message_list, fetch_result, resolved_by, processed,
               last_error>>
poll_vars == <<seen_message_timestamps, check_interval, message_list, fetch_result,
               resolved_by, processed, last_error>>

\* ------------------------------------------------- process_request, part 1
\* lines 37-40: a new call; parse_intent returns an operation or raises (the
\* outer except then returns a failure without an audit entry, log_entry
\* being None).
ParseIntentUpTo(limit) ==
  /\ opc = "idle"
  /\ calls < limit
  /\ calls' = calls + 1
  /\ exec_calls' = 0
  /\ last_exec' = None
  /\ log_entry' = None
  /\ \/ \E op \in Operations :
          /\ operation' = Some(op)
          /\ opc' = "parsed"
          /\ UNCHANGED results
     \/ /\ operation' = None
        /\ opc' = "idle"
        /\ results' = Append(results, Result(FALSE, "parse error", FALSE, None))
  /\ UNCHANGED <<now, channel, env_posts, audit_log>>
  /\ UNCHANGED appr_vars
  /\ UNCHANGED <<peer, audit_view>>

ParseIntent == ParseIntentUpTo(MaxRequests)

\* lines 43-60: the audit entry object is built, the operation classified and,
\* when high-risk, request_approval is called.
CreateLogEntry ==
  /\ opc = "parsed"
  /\ LET op == Val(operation)
     IN /\ log_entry' = Some(AuditLogEntry(now, op, is_high_risk_operation(op)))
        /\ IF is_high_risk_operation(op)
           THEN opc' = "approval" /\ apc' = "create"
           ELSE opc' = "execute" /\ apc' = apc
  /\ UNCHANGED <<now, channel, env_posts, audit_log, calls, results, operation,
                 exec_calls, last_exec>>
  /\ UNCHANGED <<pending_approvals, bot_user_id, message_sent_timestamp,
                 approval_id, session_open, post_attempts, seen_message_timestamps,
                 check_interval, message_list, fetch_result, resolved_by, processed,
                 last_error>>
  /\ UNCHANGED <<peer, audit_view>>

\* --------------------------------------------------------- request_approval
\* lines 57-66 (a new call: the locals of the previous call's
\* _wait_for_response are gone)
CreateRequest ==
  /\ apc = "create"
  /\ LET id == NewApprovalId(Cardinality(DOMAIN pending_approvals) + 1)
         request == [id |-> id, operation |-> Val(operation), timestamp |-> now,
                     status |-> PENDING, responded_by |-> None,
                     response_time |-> None]
     IN /\ approval_id' = Some(id)
        /\ pending_approvals' = (id :> request) @@ pending_approvals
  /\ apc' = "open"
  /\ post_attempts' = <<>>
  /\ resolved_by' = None
  /\ message_list' = <<>>
  /\ fetch_result' = "none"
  /\ processed' = <<>>
  /\ last_error' = None
  /\ UNCHANGED <<now, channel, env_posts, bot_user_id, message_sent_timestamp,
                 session_open, seen_message_timestamps, check_interval>>
  /\ UNCHANGED orch_vars
  /\ UNCHANGED <<peer, audit_view>>

\* a context manager whose exit does not close the connection
InSession_Leaks(pc) == pc \in {"post", "settle", "poll", "returned", "raised"}

\* lines 94-218: the two `async with` blocks.  The connection is open exactly
\* while control is inside them: __aexit__ runs on the return of line 218 and
\* on every exception that leaves the block.
InSession(pc) == pc \in {"post", "settle", "poll"}

\* lines 94-104: the helper process and the session start (taking d seconds);
\* any failure here leaves the `async with` blocks and raises.
OpenSession ==
  /\ apc = "open"
  /\ \E d \in 0..MaxCallTime :
       /\ now' = now + d
       /\ \/ /\ apc' = "post"
             /\ session_open' = InSession(apc')
             /\ bot_user_id' = _get_bot_info
             /\ message_sent_timestamp' = Some(now + d)
          \/ /\ apc' = "raised"
             /\ session_open' = InSession(apc')
             /\ UNCHANGED <<bot_user_id, message_sent_timestamp>>
  /\ UNCHANGED <<channel, env_posts, pending_approvals, approval_id, post_attempts>>
  /\ UNCHANGED poll_vars
  /\ UNCHANGED orch_vars
  /\ UNCHANGED <<peer, audit_view>>

\* lines 106-214: the encodings in the order the nested try/except tries them
PostEncodings == <<"blocks", "plain", "alt", "json">>

\* a poster that has only the rich payload
NextEncoding_RichOnly(tried) == PostEncodings[1]

\* The encoding tried after `tried` attempts were rejected.
NextEncoding(tried) == PostEncodings[Len(tried) + 1]

\* a last handler that swallows the error and goes on to wait
AfterRejection_Swallowed(tried) ==
  IF Len(tried) + 1 < Len(PostEncodings) THEN "post" ELSE "settle"

\* lines 190, 200, 213-214: where a rejected attempt leads, after the attempts
\* in `tried`: to the next encoding, or to the raise of line 214.
AfterRejection(tried) ==
  IF Len(tried) + 1 < Len(PostEncodings) THEN "post" ELSE "raised"

\* One conversations_add_message call: accepted (the prompt appears in the
\* channel) or rejected (the next encoding, or the raise of line 214).
PostPrompt ==
  /\ apc = "post"
  /\ LET encoding == NextEncoding(post_attempts)
         id == Val(approval_id)
     IN \/ /\ post_attempts' = Append(post_attempts, [encoding |-> encoding, ok |-> TRUE])
           /\ channel' = Append(channel,
                [PromptEcho(encoding, id) EXCEPT !.ts = Ts(now, Len(channel) + 1),
                                                !.at = now])
           /\ apc' = "settle"
           /\ UNCHANGED session_open
        \/ /\ post_attempts' = Append(post_attempts, [encoding |-> encoding, ok |-> FALSE])
           /\ UNCHANGED channel
           /\ apc' = AfterRejection(post_attempts)
           /\ session_open' = InSession(apc')
  /\ UNCHANGED <<now, env_posts, pending_approvals, bot_user_id,
                 message_sent_timestamp, approval_id>>
  /\ UNCHANGED poll_vars
  /\ UNCHANGED orch_vars
  /\ UNCHANGED <<peer, audit_view>>

\* line 216 and lines 273-280: asyncio.sleep(1), then _wait_for_response starts
Settle ==
  /\ apc = "settle"
  /\ now' = now + PostSettle
  /\ seen_message_timestamps' = {}
  /\ check_interval' = DefaultCheckInterval
  /\ post_attempts' = <<>>
  /\ apc' = "poll"
  /\ UNCHANGED <<channel, env_posts, pending_approvals, bot_user_id,
                 message_sent_timestamp, approval_id, session_open,
                 message_list, fetch_result, resolved_by, processed, last_error>>
  /\ UNCHANGED orch_vars
  /\ UNCHANGED <<peer, audit_view>>

\* line 273
timeout_time(request) == request.timestamp + TimeoutWindow

\* Transport errors a conversations_history call can raise: a rate-limit
\* error with a "retry after <value><unit>" hint, one without, or another error.
FetchErrors ==
  {[rate_limit |-> TRUE, hint |-> TRUE, value |-> 0, unit |-> "s"],
   [rate_limit |-> TRUE, hint |-> TRUE, value |-> 2, unit |-> "s"],
   [rate_limit |-> TRUE, hint |-> TRUE, value |-> 2, unit |-> "m"]}
  \cup {[rate_limit |-> TRUE, hint |-> FALSE, value |-> 0, unit |-> "s"],
        [rate_limit |-> FALSE, hint |-> FALSE, value |-> 0, unit |-> "s"]}

\* What the except of line 355 catches when evaluating a message raised (an
\* AttributeError: its text names no rate limit).
EvaluationError == [rate_limit |-> FALSE, hint |-> FALSE, value |-> 0, unit |-> "s"]

\* a poll loop without the except of line 355
AfterFetchError_Propagates == "raised"

\* lines 355-381: the except swallows the error and the loop goes on
AfterFetchError == "poll"

\* lines 282-381: one iteration of `while datetime.now() < timeout_time`.  The
\* fetch ends in a payload no branch can parse (message_list = []), in a
\* message list (in either order), or in a transport error; the time that passes is
\* that of the sleeps.
PollCycle ==
  /\ apc = "poll"
  /\ LET id == Val(approval_id)
         request == pending_approvals[id]
     IN /\ now < timeout_time(request)
        /\ \/ /\ message_list' = <<>>
              /\ fetch_result' = "ok"
              /\ now' = now + check_interval
              /\ UNCHANGED <<seen_message_timestamps, pending_approvals, resolved_by,
                             check_interval, apc, session_open, processed,
                             last_error>>
           \/ \E newest_first \in BOOLEAN :
                LET list == History(newest_first)
                    st == EvaluateMessages(
                            [seen |-> seen_message_timestamps, request |-> request,
                             exit |-> "no", by |-> None, processed |-> processed],
                            list, 1)
                IN /\ message_list' = list
                   /\ seen_message_timestamps' = st.seen
                   /\ pending_approvals' = [pending_approvals EXCEPT ![id] = st.request]
                   /\ resolved_by' = st.by
                   /\ processed' = st.processed
                   /\ fetch_result' = IF st.exit = "raise" THEN "error" ELSE "ok"
                   /\ last_error' = IF st.exit = "raise" THEN Some(EvaluationError)
                                    ELSE last_error
                   /\ UNCHANGED check_interval
                   /\ IF st.exit = "return"
                      THEN /\ apc' = "returned"
                           /\ session_open' = InSession(apc')
                           /\ UNCHANGED now
                      ELSE /\ apc' = "poll"
                           /\ UNCHANGED session_open
                           /\ now' = now + check_interval
           \/ \E err \in FetchErrors :
                /\ fetch_result' = "error"
                /\ last_error' = Some(err)
                /\ apc' = AfterFetchError
                /\ session_open' = InSession(apc')
                /\ IF err.rate_limit /\ err.hint
                   THEN /\ now' = now + BackoffSeconds(err)
                        /\ UNCHANGED check_interval
                   ELSE IF err.rate_limit
                   THEN /\ check_interval' = SlowCheckInterval
                        /\ now' = now + BackoffSeconds(err) + SlowCheckInterval
                   ELSE /\ now' = now + check_interval
                        /\ UNCHANGED check_interval
                /\ UNCHANGED <<seen_message_timestamps, pending_approvals,
                               resolved_by, message_list, processed>>
  /\ UNCHANGED <<channel, env_posts, bot_user_id, message_sent_timestamp,
                 approval_id, post_attempts>>
  /\ UNCHANGED orch_vars
  /\ UNCHANGED <<peer, audit_view>>

\* a timeout path that forgets the assignment of line 384
TimeoutStatus_Unset(request) == request.status

\* lines 383-385: the loop condition failed
TimeoutStatus(request) == TIMEOUT

WaitTimeout ==
  /\ apc = "poll"
  /\ LET id == Val(approval_id)
         request == pending_approvals[id]
     IN /\ ~(now < timeout_time(request))
        /\ pending_approvals' =
             [pending_approvals EXCEPT ![id].status = TimeoutStatus(request)]
  /\ apc' = "returned"
  /\ session_open' = InSession(apc')
  /\ UNCHANGED <<now, channel, env_posts, bot_user_id, message_sent_timestamp,
                 approval_id, post_attempts>>
  /\ UNCHANGED poll_vars
  /\ UNCHANGED orch_vars
  /\ UNCHANGED <<peer, audit_view>>

\* ------------------------------------------------- process_request, part 2
\* a branch test that files a timeout as a denial
IsDenied_OrTimeout(status) == status \in {DENIED, TIMEOUT}

\* line 80: elif approval.status == ApprovalStatus.DENIED
IsDenied(status) == status = DENIED

\* lines 62-104: request_approval returned
ApprovalReturned ==
  /\ opc = "approval"
  /\ apc = "returned"
  /\ apc' = "idle"
  /\ LET approval == pending_approvals[Val(approval_id)]
         entry == [Val(log_entry) EXCEPT !.approval_status = Some(approval.status),
                                         !.approved_by = approval.responded_by]
     IN IF MayExecute(approval.status)
        THEN /\ log_entry' = Some(entry)
             /\ opc' = "execute"
             /\ UNCHANGED <<audit_log, results>>
        ELSE IF IsDenied(approval.status)
        THEN /\ log_entry' = Some([entry EXCEPT !.execution_result = Some("Denied")])
             /\ audit_log' = append(audit_log, Val(log_entry'))
             /\ results' = Append(results,
                  Result(FALSE, "Operation denied by human reviewer", TRUE, Some("denied")))
             /\ opc' = "idle"
        ELSE /\ log_entry' = Some([entry EXCEPT !.execution_result = Some("Timeout")])
             /\ audit_log' = append(audit_log, Val(log_entry'))
             /\ results' = Append(results,
                  Result(FALSE, "Approval request timed out", TRUE, Some("timeout")))
             /\ opc' = "idle"
  /\ UNCHANGED <<now, channel, env_posts, calls, operation, exec_calls, last_exec>>
  /\ UNCHANGED <<pending_approvals, bot_user_id, message_sent_timestamp, approval_id,
                 session_open, post_attempts>>
  /\ UNCHANGED poll_vars
  /\ UNCHANGED <<peer, audit_view>>

\* a handler that files the failure as an execution result
RecordApprovalError_AsResult(entry) ==
  [entry EXCEPT !.execution_result = Some("Approval system error")]

\* line 109: log_entry.error = f"Approval system error: {str(approval_error)}"
RecordApprovalError(entry) ==
  [entry EXCEPT !.error = Some("Approval system error")]

\* lines 106-119: request_approval raised
ApprovalRaised ==
  /\ opc = "approval"
  /\ apc = "raised"
  /\ apc' = "idle"
  /\ opc' = "idle"
  /\ log_entry' = Some(RecordApprovalError(Val(log_entry)))
  /\ audit_log' = append(audit_log, Val(log_entry'))
  /\ results' = Append(results, Result(FALSE, "Failed to get approval", TRUE, Some("error")))
  /\ UNCHANGED <<now, channel, env_posts, calls, operation, exec_calls, last_exec>>
  /\ UNCHANGED <<pending_approvals, bot_user_id, message_sent_timestamp, approval_id,
                 session_open, post_attempts>>
  /\ UNCHANGED poll_vars
  /\ UNCHANGED <<peer, audit_view>>

\* lines 67-78 (approved) and 123-133 (low-risk), with the handlers that
\* catch what _execute_with_fallback raises: line 106 inside the approval
\* branch, line 135 otherwise.
Execute ==
  /\ opc = "execute"
  /\ opc' = "idle"
  /\ exec_calls' = exec_calls + 1
  /\ \E primary_ok \in BOOLEAN, movable \in BOOLEAN :
       LET op == Val(operation)
           high == is_high_risk_operation(op)
           out == _execute_with_fallback(op, primary_ok)
           entry == Val(log_entry)
       IN /\ last_exec' = Some([op |-> op, primary_ok |-> primary_ok,
                                 movable |-> movable, out |-> out])
          /\ IF out.ok
             THEN /\ log_entry' = Some([entry EXCEPT !.execution_result = Some("Success")])
                  /\ results' = Append(results,
                       Result(TRUE, out.value, high,
                              IF high THEN Some("approved") ELSE None))
             ELSE IF high
             THEN /\ log_entry' = Some(RecordApprovalError(entry))
                  /\ results' = Append(results,
                       Result(FALSE, "Failed to get approval", TRUE, Some("error")))
             ELSE /\ log_entry' = Some([entry EXCEPT !.error = Some(out.value)])
                  /\ results' = Append(results, Result(FALSE, out.value, FALSE, None))
  /\ audit_log' = append(audit_log, Val(log_entry'))
  /\ UNCHANGED <<now, channel, env_posts, calls, operation>>
  /\ UNCHANGED appr_vars
  /\ UNCHANGED <<peer, audit_view>>

\* ------------------------------------------------------------- environment
\* Somebody posts a message to the channel, after the prompt and before
\* process_request has picked up the outcome.
EnvPost ==
  /\ env_posts < MaxEnvPosts
  /\ apc \in {"poll", "returned"}
  /\ env_posts' = env_posts + 1
  /\ \E m \in ReplyTemplates(Val(approval_id)) :
       channel' = Append(channel,
         IF "ts" \in m.keys
         THEN [m EXCEPT !.ts = Ts(now, Len(channel) + 1), !.at = now]
         ELSE [m EXCEPT !.at = now])
  /\ UNCHANGED now
  /\ UNCHANGED orch_vars
  /\ UNCHANGED appr_vars
  /\ UNCHANGED <<peer, audit_view>>

Next ==
  \/ ParseIntent
  \/ CreateLogEntry
  \/ CreateRequest
  \/ OpenSession
  \/ PostPrompt
  \/ Settle
  \/ PollCycle
  \/ WaitTimeout
  \/ ApprovalReturned
  \/ ApprovalRaised
  \/ Execute
  \/ EnvPost

Spec == Init /\ [][Next]_vars

\* The scheduler runs every step of a started call, and channel calls return.
\* (A fetch that is answered "retry after 0s" again and again, with no time
\* passing, changes nothing: that is stuttering, which fairness excludes, so
\* the clock advances.)
Fairness ==
  /\ WF_vars(CreateLogEntry)
  /\ WF_vars(CreateRequest)
  /\ WF_vars(OpenSession)
  /\ WF_vars(PostPrompt)
  /\ WF_vars(Settle)
  /\ WF_vars(PollCycle)
  /\ WF_vars(WaitTimeout)
  /\ WF_vars(ApprovalReturned)
  /\ WF_vars(ApprovalRaised)
  /\ WF_vars(Execute)

LiveSpec == Init /\ [][Next]_vars /\ Fairness

\* ------------------------------------------------- the risk classifier alone
\* Every FileOperation: kind, path, destination and content.
FileOperations ==
  [type : OperationTypes, path : {"inside", "outside"},
   destination : {None, Some("a.txt"), Some("b.txt")},
   content : {None, Some("text")}]

RiskInit ==
  /\ Init!1 /\ Init!2 /\ Init!3 /\ Init!4 /\ Init!5 /\ Init!6 /\ Init!7
  /\ calls = 1
  /\ results = <<>>
  /\ opc = "parsed"
  /\ operation \in {Some(op) : op \in FileOperations}
  /\ log_entry = None
  /\ exec_calls = 0
  /\ last_exec = None
  /\ apc = "idle"
  /\ approval_id = None
  /\ session_open = FALSE
  /\ post_attempts = <<>>
  /\ seen_message_timestamps = {}
  /\ check_interval = DefaultCheckInterval
  /\ message_list = <<>>
  /\ fetch_result = "none"
  /\ resolved_by = None
  /\ processed = <<>>
  /\ last_error = None
  /\ peer = NoPeer
  /\ audit_view = None

RiskSpec == RiskInit /\ [][CreateLogEntry]_vars

\* -------------------------------------- two concurrent request_approval calls
\* A second caller awaits request_approval on the same SlackApprovalMCP object
\* while the first call runs (the calls interleave at their awaits).  Its steps
\* are those of the first call.  Its locals (approval_id, the encodings tried,
\* seen_message_timestamps, check_interval, the time its sleep ends) are the
\* fields of peer; self.pending_approvals, self.bot_user_id and
\* self.message_sent_timestamp are the object's, and so the same for both.
\* A step of the second call happens at the current time: when its sleep is
\* over, or when the channel call it waits for returns (peer.wake is when the
\* sleep ends or the call was issued; a call takes at most MaxCallTime).
PeerOperation == [type |-> "write", path |-> "inside"]

PeerRequest == pending_approvals[Val(peer.id)]

PeerReady == now >= peer.wake /\ now <= peer.wake + MaxCallTime

\* what a step of the second call cannot touch: the first call's locals, its
\* caller and the other parties
own_vars == <<now, env_posts, apc, approval_id, session_open, post_attempts, audit_view>>

\* lines 57-66
PeerCreateRequest ==
  /\ peer.pc = "create"
  /\ PeerReady
  /\ LET id == NewApprovalId(Cardinality(DOMAIN pending_approvals) + 1)
         request == [id |-> id, operation |-> PeerOperation, timestamp |-> now,
                     status |-> PENDING, responded_by |-> None,
                     response_time |-> None]
     IN /\ pending_approvals' = (id :> request) @@ pending_approvals
        /\ peer' = [peer EXCEPT !.pc = "open", !.id = Some(id), !.wake = now]
  /\ UNCHANGED <<channel, bot_user_id, message_sent_timestamp>>
  /\ UNCHANGED own_vars
  /\ UNCHANGED poll_vars
  /\ UNCHANGED orch_vars

\* lines 94-104: the session of the second call starts, and lines 98 and 104
\* assign self.bot_user_id and self.message_sent_timestamp; or it fails.
PeerOpenSession ==
  /\ peer.pc = "open"
  /\ PeerReady
  /\ \/ /\ peer' = [peer EXCEPT !.pc = "post", !.wake = now]
        /\ bot_user_id' = _get_bot_info
        /\ message_sent_timestamp' = Some(now)
     \/ /\ peer' = [peer EXCEPT !.pc = "raised"]
        /\ UNCHANGED <<bot_user_id, message_sent_timestamp>>
  /\ UNCHANGED <<channel, pending_approvals>>
  /\ UNCHANGED own_vars
  /\ UNCHANGED poll_vars
  /\ UNCHANGED orch_vars

\* lines 106-216: one conversations_add_message call of the second call
PeerPostPrompt ==
  /\ peer.pc = "post"
  /\ PeerReady
  /\ LET encoding == NextEncoding(peer.attempts)
         id == Val(peer.id)
     IN \/ /\ channel' = Append(channel,
                [PromptEcho(encoding, id) EXCEPT !.ts = Ts(now, Len(channel) + 1),
                                                !.at = now])
           /\ peer' = [peer EXCEPT !.pc = "settle", !.wake = now + PostSettle,
                                   !.attempts = <<>>]
        \/ /\ UNCHANGED channel
           /\ peer' = [peer EXCEPT
                         !.pc = AfterRejection(peer.attempts),
                         !.wake = now,
                         !.attempts = Append(peer.attempts,
                                             [encoding |-> encoding, ok |-> FALSE])]
  /\ UNCHANGED <<pending_approvals, bot_user_id, message_sent_timestamp>>
  /\ UNCHANGED own_vars
  /\ UNCHANGED poll_vars
  /\ UNCHANGED orch_vars

\* lines 216 and 273-280: the sleep is over, _wait_for_response starts
PeerSettle ==
  /\ peer.pc = "settle"
  /\ PeerReady
  /\ peer' = [peer EXCEPT !.pc = "poll", !.seen = {}, !.wake = now,
                          !.interval = DefaultCheckInterval]
  /\ UNCHANGED <<channel, pending_approvals, bot_user_id, message_sent_timestamp>>
  /\ UNCHANGED own_vars
  /\ UNCHANGED poll_vars
  /\ UNCHANGED orch_vars

\* lines 282-381: one iteration of the second call's poll loop
PeerPollCycle ==
  /\ peer.pc = "poll"
  /\ PeerReady
  /\ now < timeout_time(PeerRequest)
  /\ \/ /\ peer' = [peer EXCEPT !.wake = now + peer.interval]
        /\ UNCHANGED pending_approvals
     \/ \E newest_first \in BOOLEAN :
          LET st == EvaluateMessages(
                      [seen |-> peer.seen, request |-> PeerRequest, exit |-> "no",
                       by |-> None, processed |-> <<>>],
                      History(newest_first), 1)
          IN /\ pending_approvals' =
                  [pending_approvals EXCEPT ![Val(peer.id)] = st.request]
             /\ peer' = [peer EXCEPT
                           !.seen = st.seen,
                           !.pc = IF st.exit = "return" THEN "returned" ELSE "poll",
                           !.wake = IF st.exit = "return" THEN peer.wake
                                    ELSE now + peer.interval]
     \/ \E err \in FetchErrors :
          /\ UNCHANGED pending_approvals
          /\ peer' = [peer EXCEPT
                        !.pc = AfterFetchError,
                        !.interval = IF err.rate_limit /\ ~err.hint
                                     THEN SlowCheckInterval ELSE peer.interval,
                        !.wake = IF err.rate_limit /\ err.hint
                                 THEN now + BackoffSeconds(err)
                                 ELSE IF err.rate_limit
                                 THEN now + BackoffSeconds(err) + SlowCheckInterval
                                 ELSE now + peer.interval]
  /\ UNCHANGED <<channel, bot_user_id, message_sent_timestamp>>
  /\ UNCHANGED own_vars
  /\ UNCHANGED poll_vars
  /\ UNCHANGED orch_vars

\* lines 383-385 of the second call
PeerWaitTimeout ==
  /\ peer.pc = "poll"
  /\ PeerReady
  /\ ~(now < timeout_time(PeerRequest))
  /\ pending_approvals' =
       [pending_approvals EXCEPT ![Val(peer.id)].status = TimeoutStatus(PeerRequest)]
  /\ peer' = [peer EXCEPT !.pc = "returned"]
  /\ UNCHANGED <<channel, bot_user_id, message_sent_timestamp>>
  /\ UNCHANGED own_vars
  /\ UNCHANGED poll_vars
  /\ UNCHANGED orch_vars

\* The first call (process_request for a delete) has posted its prompt with
\* the blocks encoding and starts to poll; a second task is about to run
\* line 57.
ConcInit ==
  /\ now = PostSettle
  /\ channel = <<[PromptEcho("blocks", NewApprovalId(1)) EXCEPT !.ts = Ts(0, 1)]>>
  /\ env_posts = 0
  /\ audit_log = <<>>
  /\ pending_approvals =
       (NewApprovalId(1) :>
          [id |-> NewApprovalId(1), operation |-> [type |-> "delete", path |-> "inside"],
           timestamp |-> 0, status |-> PENDING, responded_by |-> None,
           response_time |-> None])
  /\ bot_user_id = _get_bot_info
  /\ message_sent_timestamp = Some(0)
  /\ calls = 1
  /\ results = <<>>
  /\ opc = "approval"
  /\ operation = Some([type |-> "delete", path |-> "inside"])
  /\ log_entry = Some(AuditLogEntry(0, [type |-> "delete", path |-> "inside"], TRUE))
  /\ exec_calls = 0
  /\ last_exec = None
  /\ apc = "poll"
  /\ approval_id = Some(NewApprovalId(1))
  /\ session_open = InSession("poll")
  /\ post_attempts = <<>>
  /\ seen_message_timestamps = {}
  /\ check_interval = DefaultCheckInterval
  /\ message_list = <<>>
  /\ fetch_result = "none"
  /\ resolved_by = None
  /\ processed = <<>>
  /\ last_error = None
  /\ peer = [NoPeer EXCEPT !.pc = "create", !.wake = PostSettle]
  /\ audit_view = None

ConcNext ==
  \/ PollCycle
  \/ WaitTimeout
  \/ EnvPost
  \/ PeerCreateRequest
  \/ PeerOpenSession
  \/ PeerPostPrompt
  \/ PeerSettle
  \/ PeerPollCycle
  \/ PeerWaitTimeout

ConcSpec == ConcInit /\ [][ConcNext]_vars

\* ------------------------------------------- the audit log over several calls
\* What a request_approval call comes to: it raises (the session or every
\* posting encoding failed), or it returns its request APPROVED or DENIED by a
\* reviewer's reply, or TIMEOUT at the first wake-up after the deadline.  took
\* is the time the call takes.
RequestOutcomes ==
  {[raised |-> TRUE, status |-> PENDING, by |-> None, took |-> 0],
   [raised |-> FALSE, status |-> APPROVED, by |-> Some(N_alice),
    took |-> PostSettle + 2 * DefaultCheckInterval],
   [raised |-> FALSE, status |-> DENIED, by |-> Some(N_alice),
    took |-> PostSettle + 2 * DefaultCheckInterval],
   [raised |-> FALSE, status |-> TIMEOUT, by |-> None,
    took |-> TimeoutWindow + PostSettle]}

\* request_approval (lines 52-218) as one step of process_request: the request
\* is created and, unless the call raises, prompted for and answered or
\* timed out; the locals of the poll loop are gone when it is over.
request_approval ==
  /\ opc = "approval"
  /\ apc = "create"
  /\ \E outcome \in RequestOutcomes :
       LET id == NewApprovalId(Cardinality(DOMAIN pending_approvals) + 1)
           done == now + outcome.took
           request == [id |-> id, operation |-> Val(operation), timestamp |-> now,
                       status |-> outcome.status, responded_by |-> outcome.by,
                       response_time |-> IF IsNone(outcome.by) THEN None ELSE Some(done)]
           prompt == [PromptEcho("blocks", id) EXCEPT !.ts = Ts(now, Len(channel) + 1),
                                                     !.at = now]
           reply == [Dict(CsvKeys, U_alice, N_alice,
                          (IF outcome.status = APPROVED THEN S_approve ELSE S_deny)
                            \o Sp \o id, <<>>)
                       EXCEPT !.ts = Ts(done - 1, Len(channel) + 2), !.at = done - 1]
       IN /\ approval_id' = Some(id)
          /\ pending_approvals' = (id :> request) @@ pending_approvals
          /\ now' = done
          /\ apc' = IF outcome.raised THEN "raised" ELSE "returned"
          /\ message_sent_timestamp' =
               IF outcome.raised THEN message_sent_timestamp ELSE Some(now)
          /\ channel' = IF outcome.raised THEN channel
                        ELSE IF IsNone(outcome.by) THEN Append(channel, prompt)
                        ELSE channel \o <<prompt, reply>>
  /\ bot_user_id' = _get_bot_info
  /\ UNCHANGED <<env_posts, session_open, post_attempts, peer, audit_view>>
  /\ UNCHANGED poll_vars
  /\ UNCHANGED orch_vars

\* log.timestamp.isoformat()
isoformat(t) == [iso |-> t]

\* lines 198-207: the dictionary made of one entry
EntryDict(log) ==
  [timestamp |-> isoformat(log.timestamp),
   operation |-> log.operation.type,
   path |-> log.operation.path,
   required_approval |-> log.required_approval,
   approval_status |-> IF ~IsNone(log.approval_status)
                       THEN Some(Val(log.approval_status)) ELSE None,
   approved_by |-> log.approved_by,
   result |-> log.execution_result,
   error |-> log.error]

\* a filter whose upper bound is exclusive
get_audit_log_Exclusive(start_date, end_date) ==
  LET from_start == IF ~IsNone(start_date)
                    THEN SelectSeq(audit_log, LAMBDA log : log.timestamp >= Val(start_date))
                    ELSE audit_log
      to_end == IF ~IsNone(end_date)
                THEN SelectSeq(from_start, LAMBDA log : log.timestamp < Val(end_date))
                ELSE from_start
  IN [i \in 1..Len(to_end) |-> EntryDict(to_end[i])]

\* get_audit_log (lines 185-207); a datetime is always true, so `if start_date`
\* is `start_date is not None`.
get_audit_log(start_date, end_date) ==
  LET from_start == IF ~IsNone(start_date)
                    THEN SelectSeq(audit_log, LAMBDA log : log.timestamp >= Val(start_date))
                    ELSE audit_log
      to_end == IF ~IsNone(end_date)
                THEN SelectSeq(from_start, LAMBDA log : log.timestamp <= Val(end_date))
                ELSE from_start
  IN [i \in 1..Len(to_end) |-> EntryDict(to_end[i])]

\* The bounds a caller passes to get_audit_log.
QueryDates == {None} \cup {Some(t) : t \in {0, 3, 7, 11}}

\* A call of get_audit_log between two process_request calls (main.py line 51).
GetAuditLog ==
  /\ opc = "idle"
  /\ \E start_date \in QueryDates, end_date \in QueryDates :
       audit_view' = Some([start |-> start_date, end |-> end_date,
                           entries |-> get_audit_log(start_date, end_date)])
  /\ UNCHANGED <<now, channel, env_posts, peer>>
  /\ UNCHANGED orch_vars
  /\ UNCHANGED appr_vars

ParseIntentAudited == ParseIntentUpTo(MaxAuditedCalls)

AuditNext ==
  \/ ParseIntentAudited
  \/ CreateLogEntry
  \/ request_approval
  \/ ApprovalReturned
  \/ ApprovalRaised
  \/ Execute
  \/ GetAuditLog

AuditSpec == Init /\ [][AuditNext]_vars

\* ======================================================== claims: vocabulary
Terminal == {APPROVED, DENIED, TIMEOUT}

HighRiskKinds == {"delete", "move", "write"}

\* The request of the running (or last) request_approval call.
CurrentRequest == pending_approvals[Val(approval_id)]

TextOf(m) == IF m.kind = "dict" THEN Get(m, "text", <<>>) ELSE m.text

\* The author a reader of the channel sees: the display name, else the user id.
AuthorOf(m) ==
  IF m.kind # "dict" THEN S_unknown
  ELSE IF "username" \in m.keys THEN m.username
  ELSE IF "user" \in m.keys THEN m.user
  ELSE S_unknown

HasPromptMarker(m) ==
  \/ Contains(TextOf(m), S_AgentApprovalRequest)
  \/ Contains(TextOf(m), S_ToApproveReply)

AuthoredByBot(m) == m.kind = "dict" /\ "user" \in m.keys /\ m.user = BotUserId

\* The text names the request and carries a decision word.
Decisive(m, id) ==
  /\ Contains(Lower(TextOf(m)), Lower(id))
  /\ \/ Contains(Lower(TextOf(m)), S_approve)
     \/ Contains(Lower(TextOf(m)), S_deny)
     \/ Contains(Lower(TextOf(m)), S_reject)

\* The text contains "<requestID> approve".
SaysIdApprove(m, id) == Contains(TextOf(m), id \o Sp \o S_approve)

\* None of the self-originated heuristics of the spec's section 4.3 (2b)
\* applies: no bot/app marker in the display name, no prompt marker in the
\* text, and a timestamp (if any) at least 5 seconds from the prompt's post time.
EscapesSelfHeuristics(m, sent) ==
  \/ m.kind # "dict"
  \/ /\ ~Contains(Lower(Get(m, "username", <<>>)), S_bot)
     /\ ~Contains(Lower(Get(m, "username", <<>>)), S_app)
     /\ ~HasPromptMarker(m)
     /\ \/ ~m.ts.has
        \/ Abs(m.ts.sec - sent) >= EchoWindow

Unseen(m, seen) == ~(m.ts.has /\ m.ts \in seen)

\* ================================================================== claims
\* C1: for a high-risk operation (Delete, Move, Write) the executor runs only
\* after request_approval has returned the request of this call with status
\* APPROVED; while the status is PENDING (request_approval raised or has not
\* returned), DENIED or TIMEOUT the executor has not been invoked.
C1_ExecuteOnlyAfterApproved ==
  (/\ ~IsNone(operation)
   /\ Val(operation).type \in HighRiskKinds
   /\ (opc = "execute" \/ exec_calls > 0))
  => /\ ~IsNone(approval_id)
     /\ apc = "idle"
     /\ CurrentRequest.operation = Val(operation)
     /\ CurrentRequest.status = APPROVED

C1_Witness ==
  /\ ~IsNone(operation)
  /\ Val(operation).type = "delete"
  /\ exec_calls = 1
  /\ CurrentRequest.status = APPROVED
  /\ Len(audit_log) = 1

\* C2: the classification recorded for an operation is high-risk exactly for
\* the kinds Delete, Move and Write, and low-risk for List and Read, whatever
\* its path, destination and content; the high-risk ones go to approval, the
\* others straight to execution.
C2_RiskClassification ==
  ~IsNone(log_entry)
  => LET op == Val(log_entry).operation
     IN /\ op = Val(operation)
        /\ op.type \in OperationTypes
        /\ Val(log_entry).required_approval <=> op.type \in HighRiskKinds
        /\ op.type \in {"list", "read"} <=> opc = "execute"
        /\ op.type \in HighRiskKinds <=> opc = "approval"

C2_Witness ==
  /\ ~IsNone(log_entry)
  /\ Val(operation).type = "write"
  /\ Val(operation).path = "outside"
  /\ ~IsNone(Val(operation).destination)
  /\ ~IsNone(Val(operation).content)
  /\ Val(log_entry).required_approval

\* C3: a request whose status is APPROVED, DENIED or TIMEOUT keeps that status
\* in every later step.
C3_TerminalStatusIsFinal ==
  [][\A id \in DOMAIN pending_approvals :
       pending_approvals[id].status \in Terminal
       => pending_approvals'[id].status = pending_approvals[id].status]_vars

\* A request timed out, a matching reply arrived after that, and
\* process_request went on to its end.
C3_Witness ==
  /\ ~IsNone(approval_id)
  /\ CurrentRequest.status = TIMEOUT
  /\ opc = "idle"
  /\ Len(results) = 1
  /\ \E i \in 1..Len(channel) :
       /\ Decisive(channel[i], Val(approval_id))
       /\ EscapesSelfHeuristics(channel[i], Val(message_sent_timestamp))
       /\ channel[i].at >= timeout_time(CurrentRequest)

\* C4 (as claimed): response_time is set if and only if the status is
\* APPROVED or DENIED.
C4_ResponseTimeIffResolved ==
  \A id \in DOMAIN pending_approvals :
    ~IsNone(pending_approvals[id].response_time)
    <=> pending_approvals[id].status \in {APPROVED, DENIED}

\* C5 (as claimed): a message authored by the bot's own account, or whose text
\* contains the prompt's marker text, never takes a request out of PENDING.
C5_SelfOriginatedNeverResolves ==
  ~IsNone(resolved_by)
  => ~(AuthoredByBot(Val(resolved_by)) \/ HasPromptMarker(Val(resolved_by)))

Qualifying(m) ==
  /\ Decisive(m, Val(approval_id))
  /\ EscapesSelfHeuristics(m, Val(message_sent_timestamp))

C8_RequestApprovalCompletes ==
  /\ (apc = "create") ~> (apc \in {"returned", "raised"})
  /\ [](apc = "returned" => CurrentRequest.status \in Terminal)

\* The call went through a rate-limit error, an evaluation error and a
\* timeout.
C8_Witness ==
  /\ apc = "returned"
  /\ CurrentRequest.status = TIMEOUT
  /\ check_interval = SlowCheckInterval
  /\ fetch_result = "error"

\* Calls of process_request that have returned a parse failure.
ParseFailures == Cardinality({i \in 1..Len(results) : results[i].value = "parse error"})

\* Calls of process_request that have returned.
Returned == IF opc = "idle" THEN calls ELSE calls - 1

\* C9 (as claimed): every call of process_request that has returned has
\* appended exactly one audit entry and returned exactly one result.
C9_OneEntryPerCall ==
  /\ Len(results) = Returned
  /\ Len(audit_log) = Returned

\* C9 (amended): every call of process_request returns exactly one result; a
\* call whose intent parse succeeded appends exactly one audit entry, at its
\* return, and a call whose intent parse failed appends none.
C9_OneEntryPerParsedCall ==
  /\ [](/\ Len(results) = Returned
        /\ Len(audit_log) = Returned - ParseFailures)
  /\ [][(Len(audit_log') # Len(audit_log)
           => (/\ audit_log' = Append(audit_log, Val(log_entry'))
               /\ Len(results') = Len(results) + 1
               /\ opc' = "idle"))
        /\ (Len(results') # Len(results)
           => (/\ Len(results') = Len(results) + 1
               /\ opc' = "idle"))]_vars

\* An approved operation whose execution failed: one entry, one result.
C9_Witness ==
  /\ opc = "idle"
  /\ calls = 1
  /\ Len(audit_log) = 1
  /\ Len(results) = 1
  /\ exec_calls = 1
  /\ ~results[1].success
  /\ audit_log[1].approval_status = Some(APPROVED)
  /\ ~IsNone(audit_log[1].error)

\* The running call has had a side effect: its prompt is in the channel, or
\* the executor is about to run.
SideEffectStarted ==
  \/ opc = "approval" /\ apc \in {"settle", "poll", "returned"}
  \/ opc = "execute"

\* C10 (as claimed): when the first side effect of a request occurs, its audit
\* entry is already in the audit log.
C10_EntryLoggedBeforeSideEffects ==
  SideEffectStarted
  => \E i \in 1..Len(audit_log) :
       /\ audit_log[i].timestamp = Val(log_entry).timestamp
       /\ audit_log[i].operation = Val(operation)

\* C10 (amended): before the first side effect of a request its audit entry
\* exists, with required_approval = high-risk, but only as the call's
\* log_entry: the audit log does not hold it while the prompt is posted, the
\* channel polled and the executor run, and receives it when the call returns.
C10_EntryBuiltBeforeLoggedAfter ==
  /\ [](opc \in {"approval", "execute"}
        => (/\ ~IsNone(log_entry)
            /\ Val(log_entry).operation = Val(operation)
            /\ (Val(log_entry).required_approval
                 <=> Val(operation).type \in HighRiskKinds)
            /\ Len(audit_log) = Len(results) - ParseFailures))
  /\ [][(opc \in {"approval", "execute"} /\ opc' = "idle")
        => (audit_log' = Append(audit_log, Val(log_entry')))]_vars

\* The prompt of a high-risk request is in the channel and the audit log is
\* still empty.
C10_Witness ==
  /\ opc = "approval"
  /\ apc = "poll"
  /\ Len(channel) > 0
  /\ Val(log_entry).required_approval
  /\ audit_log = <<>>

\* C11 (as claimed): an operation whose path is outside the working directory
\* is refused before any approval or execution step: while it is the current
\* operation, process_request never waits for an approval and no
\* request_approval call is in progress.
C11_OutsideRefusedBeforeApproval ==
  (~IsNone(operation) /\ ~_is_path_allowed(Val(operation).path))
  => /\ opc # "approval"
     /\ apc = "idle"

\* Every posting encoding of the current request's prompt was rejected.
AllEncodingsRejected ==
  /\ Len(post_attempts) = Len(PostEncodings)
  /\ \A i \in 1..Len(post_attempts) : ~post_attempts[i].ok

\* C12: when every posting encoding was rejected, request_approval has raised
\* (it does not wait and does not return a request; at most, the next
\* process_request is about to create its own request), the request is still
\* PENDING, nothing in the channel names it, and no history fetch was or is
\* issued for it.
C12_AllRejectedNeverPolled ==
  /\ [](AllEncodingsRejected
        => /\ apc \in {"raised", "idle", "create"}
           /\ ~session_open
           /\ CurrentRequest.status = PENDING
           /\ fetch_result = "none"
           /\ message_list = <<>>
           /\ \A i \in 1..Len(channel) :
                ~Contains(TextOf(channel[i]), Val(approval_id)))
  /\ [][AllEncodingsRejected => ~PollCycle]_vars

\* process_request has finished a call in which the four encodings failed.
C12_Witness ==
  /\ AllEncodingsRejected
  /\ post_attempts[4].encoding = "json"
  /\ opc = "idle"
  /\ Len(results) = 1

\* The last element of a non-empty sequence.
Last(s) == s[Len(s)]

\* C13: when request_approval raises, process_request has not invoked the
\* executor and does not invoke it; it returns a failure result and appends an
\* audit entry for the operation with required_approval = true, an error, no
\* approval status and no execution result.
C13_RaisedApprovalIsRecorded ==
  /\ [](apc = "raised" => opc = "approval" /\ exec_calls = 0)
  /\ [][(apc = "raised" /\ apc' # "raised")
        => (/\ opc' = "idle"
            /\ exec_calls' = 0
            /\ Len(results') = Len(results) + 1
            /\ ~Last(results').success
            /\ Last(results').required_approval
            /\ Last(results').approval_status = Some("error")
            /\ Len(audit_log') = Len(audit_log) + 1
            /\ SubSeq(audit_log', 1, Len(audit_log)) = audit_log
            /\ Last(audit_log').operation = Val(operation)
            /\ Last(audit_log').required_approval
            /\ ~IsNone(Last(audit_log').error)
            /\ IsNone(Last(audit_log').approval_status)
            /\ IsNone(Last(audit_log').approved_by)
            /\ IsNone(Last(audit_log').execution_result))]_vars

\* The session could not be started for a write: the failure is on record.
C13_Witness ==
  /\ opc = "idle"
  /\ Len(audit_log) = 1
  /\ post_attempts = <<>>
  /\ ~session_open
  /\ IsNone(message_sent_timestamp)
  /\ audit_log[1].operation.type = "write"
  /\ audit_log[1].required_approval
  /\ ~IsNone(audit_log[1].error)
  /\ IsNone(audit_log[1].approval_status)
  /\ exec_calls = 0

LowRiskKinds == {"list", "read"}

\* C14: while the current operation is low-risk (List, Read) no step touches
\* the approval coordinator or the channel (no request, no prompt, no fetch);
\* and when its execution succeeds, process_request returns success and
\* appends one audit entry with required_approval = false, no approval status
\* and the result "Success".
C14_LowRiskSkipsApproval ==
  /\ [][(~IsNone(operation') /\ Val(operation').type \in LowRiskKinds)
        => UNCHANGED <<channel, pending_approvals, approval_id, apc, session_open,
                       post_attempts, message_list, fetch_result,
                       seen_message_timestamps, message_sent_timestamp>>]_vars
  /\ [][(/\ opc = "execute"
         /\ opc' = "idle"
         /\ Val(operation).type \in LowRiskKinds
         /\ Last(results').success)
        => (/\ Len(results') = Len(results) + 1
            /\ ~Last(results').required_approval
            /\ IsNone(Last(results').approval_status)
            /\ Len(audit_log') = Len(audit_log) + 1
            /\ SubSeq(audit_log', 1, Len(audit_log)) = audit_log
            /\ Last(audit_log').operation = Val(operation)
            /\ ~Last(audit_log').required_approval
            /\ IsNone(Last(audit_log').approval_status)
            /\ IsNone(Last(audit_log').approved_by)
            /\ Last(audit_log').execution_result = Some("Success")
            /\ IsNone(Last(audit_log').error))]_vars

\* A list operation succeeded with the channel and the coordinator untouched.
C14_Witness ==
  /\ opc = "idle"
  /\ Len(results) = 1
  /\ results[1].success
  /\ Val(operation).type = "list"
  /\ Len(audit_log) = 1
  /\ ~audit_log[1].required_approval
  /\ channel = <<>>
  /\ pending_approvals = <<>>
  /\ IsNone(approval_id)

\* C15: when request_approval returns DENIED (resp. TIMEOUT), process_request
\* does not execute; it returns a failure whose reason is the denial by the
\* reviewer ("Operation denied by human reviewer"; resp. the timeout,
\* "Approval request timed out"), and appends an audit entry with
\* approval_status denied (resp. timeout), result "Denied" (resp. "Timeout")
\* and no error.
C15_DeniedAndTimeoutReported ==
  [][(/\ apc = "returned"
      /\ apc' # "returned"
      /\ CurrentRequest.status \in {DENIED, TIMEOUT})
     => LET denied == CurrentRequest.status = DENIED
        IN /\ opc' = "idle"
           /\ exec_calls' = 0
           /\ Len(results') = Len(results) + 1
           /\ ~Last(results').success
           /\ Last(results').required_approval
           /\ Last(results').value =
                (IF denied THEN "Operation denied by human reviewer"
                 ELSE "Approval request timed out")
           /\ Last(results').approval_status =
                Some(IF denied THEN "denied" ELSE "timeout")
           /\ Len(audit_log') = Len(audit_log) + 1
           /\ SubSeq(audit_log', 1, Len(audit_log)) = audit_log
           /\ Last(audit_log').operation = Val(operation)
           /\ Last(audit_log').required_approval
           /\ Last(audit_log').approval_status =
                Some(IF denied THEN DENIED ELSE TIMEOUT)
           /\ Last(audit_log').execution_result =
                Some(IF denied THEN "Denied" ELSE "Timeout")
           /\ IsNone(Last(audit_log').error)]_vars

\* A delete was denied by a "deny <requestID>" reply.
C15_Witness ==
  /\ opc = "idle"
  /\ Len(audit_log) = 1
  /\ audit_log[1].operation.type = "delete"
  /\ audit_log[1].approval_status = Some(DENIED)
  /\ audit_log[1].execution_result = Some("Denied")
  /\ ~IsNone(resolved_by)
  /\ TextOf(Val(resolved_by)) = S_deny \o Sp \o Val(approval_id)
  /\ results[1].approval_status = Some("denied")
  /\ exec_calls = 0

\* The error execute_operation raises for `op` (file_agent.py lines 46-53).
ExecutorError(op, primary_ok) ==
  IF op.path = "outside" THEN "Operation not allowed outside working directory"
  ELSE "Failed to execute AI-generated code"

ExecutorFailed(x) == x.op.path = "outside" \/ ~x.primary_ok

\* C16 (as claimed): for an approved Delete whose executor fails, the
\* quarantine move is attempted and, where the file system lets the move
\* happen, process_request reports success with the result naming the
\* quarantine path.
C16_DeleteFallbackSucceeds ==
  (/\ ~IsNone(last_exec)
   /\ Val(last_exec).op.type = "delete"
   /\ ExecutorFailed(Val(last_exec))
   /\ Val(last_exec).movable)
  => /\ Val(last_exec).out.fallback
     /\ Val(last_exec).out.ok
     /\ Val(last_exec).out.value = "File moved to trash"
     /\ Last(results).success

\* C17: a fallback is attempted only for a Delete whose executor failed (and
\* then exactly once, _execute_with_fallback being called once per request);
\* whenever _execute_with_fallback fails, for a Delete whose fallback failed
\* as for every other kind, the error it raises is the executor's own, and
\* that is the error a low-risk caller gets.
C17_FallbackOnlyForDeleteOriginalError ==
  /\ exec_calls <= 1
  /\ IsNone(last_exec) <=> exec_calls = 0
  /\ ~IsNone(last_exec)
     => LET x == Val(last_exec)
        IN /\ x.op = Val(operation)
           /\ x.out.fallback <=> (x.op.type = "delete" /\ ExecutorFailed(x))
           /\ x.out.ok <=> ~ExecutorFailed(x)
           /\ ~x.out.ok => x.out.value = ExecutorError(x.op, x.primary_ok)
           /\ (~x.out.ok /\ x.op.type \in LowRiskKinds)
              => /\ Last(results).value = ExecutorError(x.op, x.primary_ok)
                 /\ Last(audit_log).error = Some(ExecutorError(x.op, x.primary_ok))

\* An approved delete inside the working directory failed, the fallback was
\* tried and failed, and the executor's error came out.
C17_Witness ==
  /\ ~IsNone(last_exec)
  /\ Val(last_exec).op = [type |-> "delete", path |-> "inside"]
  /\ ~Val(last_exec).primary_ok
  /\ Val(last_exec).out.fallback
  /\ ~Val(last_exec).out.ok
  /\ Val(last_exec).out.value = "Failed to execute AI-generated code"
  /\ CurrentRequest.status = APPROVED

\* C18: within one request_approval call no message identifier (ts) is given
\* to _process_response twice; a poll cycle that fetches only messages whose
\* identifiers were seen in earlier cycles leaves the request as it is; and
\* the request's status changes at most once, out of PENDING.
C18_NoIdentifierMatchedTwice ==
  /\ [](\A i \in 1..Len(processed) : \A j \in 1..Len(processed) :
          (i < j /\ processed[i].has) => processed[i] # processed[j])
  /\ [][(/\ PollCycle
         /\ fetch_result' = "ok"
         /\ \A i \in 1..Len(message_list') :
              /\ message_list'[i].ts.has
              /\ message_list'[i].ts \in seen_message_timestamps)
        => (/\ pending_approvals' = pending_approvals
            /\ processed' = processed
            /\ seen_message_timestamps' = seen_message_timestamps)]_vars
  /\ [][\A id \in DOMAIN pending_approvals :
          pending_approvals'[id].status # pending_approvals[id].status
          => pending_approvals[id].status = PENDING]_vars

\* A message that matched the request without deciding it was fetched again
\* in a later cycle and not matched again.
C18_Witness ==
  /\ apc = "poll"
  /\ fetch_result = "ok"
  /\ Len(processed) = 1
  /\ processed[1].has
  /\ \E i \in 1..Len(message_list) : message_list[i].ts = processed[1]
  /\ ~IsNone(CurrentRequest.response_time)
  /\ now >= Val(CurrentRequest.response_time) + 2 * DefaultCheckInterval
  /\ CurrentRequest.status = PENDING

\* The retry-after hint of a rate-limit error, in seconds.
HintSeconds(err) == IF err.unit = "m" THEN err.value * 60 ELSE err.value

\* C19: after a rate-limit error with a retry-after hint the poller sleeps
\* min(hint in seconds, 5) seconds, never more than 5, and fetches again;
\* without a hint the backoff is 5 seconds, followed by the ordinary sleep of
\* the (now 10-second) check interval.  A fetch is only issued before the
\* deadline, and a polling call always comes to its return.
C19_RateLimitBackoffCapped ==
  /\ [][(/\ PollCycle
         /\ fetch_result' = "error"
         /\ Val(last_error').rate_limit)
        => LET err == Val(last_error')
           IN IF err.hint
              THEN /\ now' - now <= 5
                   /\ now' - now = (IF HintSeconds(err) < 5 THEN HintSeconds(err) ELSE 5)
                   /\ check_interval' = check_interval
              ELSE /\ check_interval' = 10
                   /\ (now' - now) - check_interval' = 5]_vars
  /\ [][PollCycle => now < CurrentRequest.timestamp + TimeoutWindow]_vars
  /\ (apc = "poll") ~> (apc = "returned")

\* A "retry after 2m" was answered with a 5-second sleep, and the poller is
\* still polling before the deadline.
C19_Witness ==
  /\ apc = "poll"
  /\ fetch_result = "error"
  /\ last_error = Some([rate_limit |-> TRUE, hint |-> TRUE, value |-> 2, unit |-> "m"])
  /\ now = Val(message_sent_timestamp) + PostSettle + 5
  /\ now < timeout_time(CurrentRequest)

\* A reply by somebody other than the prompting account that names the
\* request with a decision word and escapes the self-originated heuristics.
HumanQualifying(m) ==
  /\ m.kind = "dict"
  /\ ~AuthoredByBot(m)
  /\ Qualifying(m)

\* C20: a poll cycle that ends in an error (a rate limit or any other) leaves
\* request_approval polling, with the session open and the request PENDING;
\* request_approval never raises once it has started to poll; after an error,
\* a cycle that fetches and evaluates a batch holding an unseen qualifying
\* reply returns the request resolved; and a call that returns right after an
\* error cycle returns TIMEOUT.
C20_FetchErrorsDoNotAbortWait ==
  /\ [](apc = "raised" => (IsNone(last_error) /\ fetch_result = "none"))
  /\ [][(PollCycle /\ fetch_result' = "error")
        => (/\ apc' = "poll"
            /\ session_open'
            /\ CurrentRequest.status = PENDING
            /\ pending_approvals'[Val(approval_id)].status = PENDING)]_vars
  /\ [][(/\ PollCycle
         /\ ~IsNone(last_error)
         /\ fetch_result' = "ok"
         /\ \E i \in 1..Len(message_list') :
              /\ HumanQualifying(message_list'[i])
              /\ Unseen(message_list'[i], seen_message_timestamps))
        => (/\ apc' = "returned"
            /\ pending_approvals'[Val(approval_id)].status \in {APPROVED, DENIED})]_vars
  /\ [][(apc = "poll" /\ apc' = "returned" /\ fetch_result' = "error")
        => pending_approvals'[Val(approval_id)].status = TIMEOUT]_vars

\* After two rate-limit errors a reply was fetched and approved the request.
C20_Witness ==
  /\ apc = "returned"
  /\ ~IsNone(last_error)
  /\ Val(last_error).rate_limit
  /\ fetch_result = "ok"
  /\ CurrentRequest.status = APPROVED
  /\ ~IsNone(resolved_by)
  /\ HumanQualifying(Val(resolved_by))
  /\ CurrentRequest.responded_by = Some(N_alice)

\* C21: the channel connection is scoped to one request_approval call: it is
\* opened inside the call (by the session start), every post and every fetch
\* of the call happens while it is open, and it is closed on every exit of the
\* call (return APPROVED, DENIED or TIMEOUT; raise when the session cannot be
\* started or every posting encoding was rejected), so that no connection is
\* open once the call has completed or before it has started.
C21_ConnectionScopedToCall ==
  /\ [](session_open <=> apc \in {"post", "settle", "poll"})
  /\ [](apc \in {"idle", "create", "open", "returned", "raised"} => ~session_open)
  /\ [][(~session_open /\ session_open') => (OpenSession /\ apc = "open")]_vars
  /\ [][(PostPrompt \/ PollCycle \/ Settle) => session_open]_vars
  /\ [][(session_open /\ ~session_open') => (apc' \in {"returned", "raised"})]_vars
  /\ [][(apc # apc' /\ apc' \in {"returned", "raised"}) => ~session_open']_vars

\* A call that polled twice and returned DENIED has closed its connection.
C21_Witness ==
  /\ apc = "returned"
  /\ ~session_open
  /\ CurrentRequest.status = DENIED
  /\ fetch_result = "ok"
  /\ Len(channel) = 2
  /\ ~IsNone(last_error)

\* The prompt that the first call posted for its request.
OwnPrompt(m) ==
  /\ AuthoredByBot(m)
  /\ TextOf(m) \in {BlocksPromptText(Val(approval_id)), PlainPromptText(Val(approval_id))}

\* When the first call posted its prompt (line 104 of that call).
OwnPostTime == channel[CHOOSE i \in 1..Len(channel) : OwnPrompt(channel[i])].at

\* C22 (as claimed): with a second request_approval call running on the same
\* coordinator, whether a fetched message counts as self-originated for a
\* request depends only on that request's own prompt post time (and the
\* message): it is self-originated exactly if the display name has a bot/app
\* marker, the text has a prompt marker, or its timestamp is within 5 seconds
\* of the post time of this request's prompt, as when the request is
\* coordinated alone.
C22_ClassificationIsPerRequest ==
  [][(PollCycle /\ fetch_result' = "ok")
     => \A i \in 1..Len(message_list') :
          LET m == message_list'[i]
          IN (m.kind = "dict" /\ ~IsBotMessageRaises(m))
             => (_is_bot_message(m) <=> ~EscapesSelfHeuristics(m, OwnPostTime))]_vars

\* C23: the audit log is append-only and its entries are immutable once
\* appended: over process_request and get_audit_log calls the log never gets
\* shorter and every entry in it keeps all its fields (timestamp, operation,
\* required_approval, approval status, approver, result, error) and its
\* place; a step that changes the log appends the call's entry as the call
\* returns, that entry object is not changed afterwards, and get_audit_log
\* leaves the log as it is.
C23_AuditLogAppendOnly ==
  /\ [][(/\ Len(audit_log') >= Len(audit_log)
         /\ \A i \in 1..Len(audit_log) : audit_log'[i] = audit_log[i])]_vars
  /\ [][(audit_log' # audit_log)
        => (/\ audit_log' = Append(audit_log, Val(log_entry'))
            /\ opc' = "idle")]_vars
  /\ []((opc = "idle" /\ ~IsNone(log_entry)) => (Last(audit_log) = Val(log_entry)))
  /\ [][GetAuditLog => (audit_log' = audit_log)]_vars

\* The log was read after an approved write had failed, and a denied delete
\* was appended after that.
C23_Witness ==
  /\ Len(audit_log) = 2
  /\ audit_log[1].operation.type = "write"
  /\ audit_log[1].approval_status = Some(APPROVED)
  /\ ~IsNone(audit_log[1].error)
  /\ audit_log[2].operation.type = "delete"
  /\ audit_log[2].execution_result = Some("Denied")
  /\ audit_log[2].timestamp > audit_log[1].timestamp
  /\ ~IsNone(audit_view)
  /\ Len(Val(audit_view).entries) = 1

\* t is within the bounds that are given.
InRange(t, start, end) ==
  /\ IsNone(start) \/ Val(start) <= t
  /\ IsNone(end) \/ t <= Val(end)

\* C24: get_audit_log(start, end) returns exactly the entries whose timestamp
\* t has start <= t (when start is given) and t <= end (when end is given),
\* in the order in which they were appended, each with its own fields, and
\* leaves the audit log unchanged; with neither bound it returns every entry.
C24_AuditQueryReturnsRange ==
  [][GetAuditLog
     => LET q == Val(audit_view')
            hits == {i \in 1..Len(audit_log) :
                       InRange(audit_log[i].timestamp, q.start, q.end)}
        IN /\ audit_log' = audit_log
           /\ Len(q.entries) = Cardinality(hits)
           /\ \A i \in hits :
                LET k == Cardinality({j \in hits : j <= i})
                IN /\ q.entries[k].timestamp = isoformat(audit_log[i].timestamp)
                   /\ q.entries[k].operation = audit_log[i].operation.type
                   /\ q.entries[k].path = audit_log[i].operation.path
                   /\ q.entries[k].required_approval = audit_log[i].required_approval
                   /\ q.entries[k].approval_status = audit_log[i].approval_status
                   /\ q.entries[k].approved_by = audit_log[i].approved_by
                   /\ q.entries[k].result = audit_log[i].execution_result
                   /\ q.entries[k].error = audit_log[i].error
           /\ ((IsNone(q.start) /\ IsNone(q.end))
                => (Len(q.entries) = Len(audit_log)))]_vars

\* A query for the range [7, 7] returned the second of two entries, whose
\* timestamp is 7, and not the first.
C24_Witness ==
  /\ Len(audit_log) = 2
  /\ audit_log[1].timestamp = 0
  /\ audit_log[2].timestamp = 7
  /\ ~IsNone(audit_view)
  /\ Val(audit_view).start = Some(7)
  /\ Val(audit_view).end = Some(7)
  /\ Len(Val(audit_view).entries) = 1
  /\ Val(audit_view).entries[1].timestamp = isoformat(7)
  /\ Val(audit_view).entries[1].operation = audit_log[2].operation.type

\* The prompts of the current request that the channel holds.
OwnPrompts == {i \in 1..Len(channel) : OwnPrompt(channel[i])}

C26_EveryEvaluatedMessageMarkedSeen ==
  [][(PollCycle /\ fetch_result' = "ok" /\ apc' = "poll")
     => \A i \in 1..Len(message_list') :
          /\ message_list'[i].ts.has
          /\ message_list'[i].ts \in seen_message_timestamps']_vars

\* The text carries a "deny" or a "reject" token.
HasDenyToken(m) ==
  \/ Contains(Lower(TextOf(m)), S_deny)
  \/ Contains(Lower(TextOf(m)), S_reject)

\* C27 (as claimed): a matched message whose text contains a "deny" or
\* "reject" token never resolves the request to APPROVED, also when the text
\* contains an approve token as well.
C27_DenyTokenNeverApproves ==
  (~IsNone(resolved_by) /\ HasDenyToken(Val(resolved_by)))
  => CurrentRequest.status # APPROVED

\* C28 (as claimed): process_request reports an approval-system failure (error
\* "Failed to get approval", approval_status "error", audit error "Approval
\* system error") only when request_approval itself raised; a failure of the
\* executor after an APPROVED request is not reported or audited that way.
C28_ApprovalFailureOnlyWhenRaised ==
  [][(/\ Len(results') = Len(results) + 1
      /\ \/ Last(results').value = "Failed to get approval"
         \/ Last(results').approval_status = Some("error")
         \/ (~IsNone(log_entry') /\ Val(log_entry').error = Some("Approval system error")))
     => (apc = "raised" /\ exec_calls' = 0)]_vars

\* C29 (as claimed): once a request_approval call has completed (returned or
\* raised) the ledger holds no request in status PENDING: every request of a
\* completed call is APPROVED, DENIED or TIMEOUT, or is no longer in the
\* ledger.
C29_NoPendingAfterCompletion ==
  (apc \in {"returned", "raised", "idle"})
  => \A id \in DOMAIN pending_approvals : pending_approvals[id].status \in Terminal

====
